---- MODULE Spec2Model ----
(***************************************************************************)
(* A model of src/lib/vm.rs: the register bytecode (Part 1), the VM that   *)
(* runs it (Part 2) and the compiler from the AST to bytecode (Part 3).    *)
(*                                                                         *)
(* An expression tree is held as an arena: a sequence of nodes in          *)
(* preorder, node 1 the root, every Box<Expr> child an index into the      *)
(* sequence.  compile_expr recurses over the tree; its recursion is the    *)
(* explicit call stack `stack`, one frame per active call.  VM::run is the *)
(* loop over `index`, one step per executed instruction.                   *)
(***************************************************************************)
EXTENDS Integers, Sequences, FiniteSets, TLC

VARIABLES
    ast,            \* the Expr handed to compile (arena, root at 1)
    cstate,         \* compile: "idle" | "compiling" | "ok" | a panic kind
    stack,          \* active compile_expr calls, innermost last
    out,            \* the Vec<Instruction> compile_expr appends to
    span,           \* per node: out's length at entry and exit of its call
    instructions,   \* what compile returned (<<>> until it returns)
    vm,             \* "none" before VM::new, "live" after
    registers,      \* VM.registers, slot r at position r + 1
    environment,    \* VM.realm.environment: name -> binding
    add_fails,      \* the value type's answer for non-integer operands
    rstate,         \* run: "idle" | "running" | "returned" | "failed"
    code,           \* the instruction slice of the current run
    index,          \* run's local `index`
    result,         \* the ResultValue of the last run
    nrun,           \* runs started on this VM
    first,          \* the ResultValue of the first run on this VM
    env0,           \* the environment of the realm given to VM::new
    regs0,          \* the registers when the current run started
    envlog          \* environment capability calls of the current run

vars == <<ast, cstate, stack, out, span, instructions, vm, registers,
          environment, add_fails, rstate, code, index, result, nrun, first,
          env0, regs0, envlog>>

cvars == <<ast, cstate, stack, out, span, instructions>>
rvars == <<vm, registers, environment, add_fails, rstate, code, index,
           result, nrun, first, env0, regs0, envlog>>

----------------------------------------------------------------------------
(* Bounds of the model and constants of the program.                       *)

MaxChain == 257        \* longest chain of additions compiled
MaxBlockLen == 2       \* longest block of the mixed trees
MaxRuns == 2           \* runs on one VM
MaxProgram == 16       \* longest program whose parts are also run alone

NumRegisters == 256    \* vec![ValueData::Undefined; 256]
MaxRegister == 255     \* if target.0 == 255 { panic!(..) }
U8Modulus == 256       \* Register(u8)
Two16 == 65536         \* radix of the model's f64 magnitudes
I32MaxHi == 32767      \* i32::max_value() = I32MaxHi * Two16 + I32MaxLo
I32MaxLo == 65535
I32MinHi == -32768     \* i32::min_value() = I32MinHi * Two16

Names == {"x", "y"}

----------------------------------------------------------------------------
(* Values: ValueData::Undefined, ValueData::Integer(i32), and any value    *)
(* that is neither (what an addition of non-integers may yield).           *)

Undefined == [t |-> "Undefined", v |-> 0]
Integer(n) == [t |-> "Integer", v |-> n]
OtherValue == [t |-> "Other", v |-> 0]

I32Max == I32MaxHi * Two16 + I32MaxLo
I32Min == I32MinHi * Two16

(* An f64 constant: NaN, or hi * 2^16 + lo + (half ? 0.5 : 0).             *)
F64(hi, lo, half) == [nan |-> FALSE, hi |-> hi, lo |-> lo, half |-> half]
NaN == [nan |-> TRUE, hi |-> 0, lo |-> 0, half |-> FALSE]
NoNum == F64(0, 0, FALSE)

(* f > g and f < g on non-NaN constants (every comparison with NaN is      *)
(* false).                                                                 *)
F64Gt(f, g) ==
    /\ ~f.nan /\ ~g.nan
    /\ \/ f.hi > g.hi
       \/ f.hi = g.hi /\ f.lo > g.lo
       \/ f.hi = g.hi /\ f.lo = g.lo /\ f.half /\ ~g.half

F64Lt(f, g) == F64Gt(g, f)

is_nan(f) == f.nan

(* f.fract() != 0.0 *)
fract_nonzero(f) == ~f.nan /\ f.half

(* i32::max_value() as f64, i32::min_value() as f64 *)
I32MaxAsF64 == F64(I32MaxHi, I32MaxLo, FALSE)
I32MinAsF64 == F64(I32MinHi, 0, FALSE)

(* `f as i32`: NaN is 0, out of range saturates, otherwise truncation      *)
(* toward zero.                                                            *)
f64_as_i32(f) ==
    IF f.nan THEN 0
    ELSE IF F64Gt(f, I32MaxAsF64) THEN I32Max
    ELSE IF F64Lt(f, I32MinAsF64) THEN I32Min
    ELSE LET floor == f.hi * Two16 + f.lo
         IN  IF f.half /\ floor < 0 THEN floor + 1 ELSE floor

----------------------------------------------------------------------------
(* Part 1: the instructions.                                               *)

NoName == ""

GetName(target, name) ==
    [op |-> "GetName", target |-> target, name |-> name,
     source |-> 0, left |-> 0, right |-> 0, value |-> 0]
SetName(name, source) ==
    [op |-> "SetName", target |-> 0, name |-> name,
     source |-> source, left |-> 0, right |-> 0, value |-> 0]
AddInstr(target, left, right) ==
    [op |-> "Add", target |-> target, name |-> NoName,
     source |-> 0, left |-> left, right |-> right, value |-> 0]
IntLiteral(target, value) ==
    [op |-> "IntLiteral", target |-> target, name |-> NoName,
     source |-> 0, left |-> 0, right |-> 0, value |-> value]

(* The registers an instruction names.                                     *)
RegistersOf(i) ==
    CASE i.op = "GetName" -> {i.target}
      [] i.op = "SetName" -> {i.source}
      [] i.op = "Add" -> {i.target, i.left, i.right}
      [] i.op = "IntLiteral" -> {i.target}

----------------------------------------------------------------------------
(* The AST (syntax::ast::expr): arenas and their constructors.             *)

Node(def, value, num, name, kids) ==
    [def |-> def, value |-> value, num |-> num, name |-> name, kids |-> kids]

(* A subtree moved d places to the right in the arena.                     *)
Shift(t, d) ==
    [i \in DOMAIN t |->
        [t[i] EXCEPT !.kids = [j \in DOMAIN @ |-> @[j] + d]]]

ConstInt(n) == <<Node("ConstInt", n, NoNum, NoName, <<>>)>>
ConstNum(f) == <<Node("ConstNum", 0, f, NoName, <<>>)>>
Local(name) == <<Node("Local", 0, NoNum, name, <<>>)>>
(* A node kind compile_expr has no arm for (a call, a member access ...).  *)
GetConstField(name) == <<Node("GetConstField", 0, NoNum, name, <<>>)>>
(* The children of a node whose subtrees are es, the first at d + 1.        *)
RECURSIVE KidIds(_, _)
KidIds(es, d) ==
    IF es = <<>> THEN <<>>
    ELSE <<d + 1>> \o KidIds(Tail(es), d + Len(Head(es)))

RECURSIVE Flatten(_, _)
Flatten(es, d) ==
    IF es = <<>> THEN <<>>
    ELSE Shift(Head(es), d) \o Flatten(Tail(es), d + Len(Head(es)))

Tree(def, es) ==
    <<Node(def, 0, NoNum, NoName, KidIds(es, 1))>> \o Flatten(es, 1)

Assign(target_expr, value_expr) == Tree("Assign", <<target_expr, value_expr>>)
Add(l, r) == Tree("BinOpAdd", <<l, r>>)
Sub(l, r) == Tree("BinOpSub", <<l, r>>)
Block(exprs) == Tree("Block", exprs)

(* c + (c + (... + leaf)) with k additions: the additions sit at the odd   *)
(* positions, their left operands at the even ones.                        *)
RightChain(k, c, leaf) ==
    [i \in 1..(2 * k + 1) |->
        IF i = 2 * k + 1 THEN leaf[1]
        ELSE IF i % 2 = 1
             THEN Node("BinOpAdd", 0, NoNum, NoName, <<i + 1, i + 2>>)
             ELSE c[1]]

(* ((leaf + c) + c) + ... with k additions: the additions sit at 1..k.     *)
LeftChain(k, c, leaf) ==
    [i \in 1..(2 * k + 1) |->
        IF i <= k
            THEN Node("BinOpAdd", 0, NoNum, NoName, <<i + 1, 2 * k + 2 - i>>)
        ELSE IF i = k + 1 THEN leaf[1]
        ELSE c[1]]

----------------------------------------------------------------------------
(* The trees compiled.                                                     *)

IntLeaves == {ConstInt(1), ConstInt(3)}

Atoms ==
    IntLeaves \cup
    { Local("x"), Local("y"), Block(<<>>), GetConstField("x"),
      ConstNum(F64(0, 1, TRUE)) }

Simple ==
    Atoms \cup
    { Assign(Local("x"), ConstInt(1)), Assign(Local("x"), ConstInt(3)),
      Assign(Local("y"), Local("x")),
      Assign(GetConstField("x"), ConstInt(1)),
      Add(ConstInt(1), ConstInt(3)), Add(Local("x"), Local("x")),
      Add(Block(<<>>), ConstInt(1)),
      Sub(ConstInt(1), ConstInt(3)) }

Blocks == { Block(es) : es \in UNION { [1..m -> Simple] : m \in 0..MaxBlockLen } }

MixedTrees ==
    Simple \cup Blocks
    \cup { Add(a, b) : a \in Simple, b \in Simple }
    \cup { Assign(Local(n), a) : n \in Names, a \in Simple }

Arith0 == {ConstInt(-2), ConstInt(2), ConstInt(3)}
Arith1 == Arith0 \cup { Add(a, b) : a \in Arith0, b \in Arith0 }
ArithTrees == Arith1 \cup { Add(a, b) : a \in Arith1, b \in Arith1 }

(* 1.5, 2.0, 3.0, -1.5, NaN, and the constants around the i32 bounds.      *)
NumSamples ==
    { NaN, F64(0, 1, TRUE), F64(0, 2, FALSE), F64(0, 3, FALSE),
      F64(-1, Two16 - 2, TRUE),
      F64(I32MaxHi, I32MaxLo, FALSE), F64(I32MaxHi, I32MaxLo, TRUE),
      F64(I32MaxHi + 1, 0, FALSE), F64(I32MaxHi, I32MaxLo - 1, FALSE),
      F64(I32MinHi, 0, FALSE), F64(I32MinHi - 1, I32MaxLo, FALSE),
      F64(I32MinHi - 1, I32MaxLo, TRUE), F64(I32MinHi, 1, FALSE) }

NumTrees ==
    { ConstNum(f) : f \in NumSamples }
    \cup { Add(ConstNum(F64(0, 2, FALSE)), ConstNum(F64(0, 3, FALSE))),
           Add(ConstNum(F64(0, 1, TRUE)), ConstInt(1)),
           Block(<<ConstInt(1), ConstNum(NaN)>>) }

ChainLens == (0..3) \cup ((MaxRegister - 1)..MaxChain)

ChainTrees ==
    { RightChain(k, ConstInt(1), leaf) :
        k \in ChainLens, leaf \in {ConstInt(1), GetConstField("x")} }
    \cup { LeftChain(k, ConstInt(1), ConstInt(1)) : k \in ChainLens }

Trees == MixedTrees \cup ArithTrees \cup NumTrees \cup ChainTrees

----------------------------------------------------------------------------
(* Part 3: the compiler.                                                   *)

Frame(node, target, pc, i) == [node |-> node, target |-> target, pc |-> pc, i |-> i]

Top == stack[Len(stack)]
Callers == SubSeq(stack, 1, Len(stack) - 1)
Here == ast[Top.node]

NoSpan == [from |-> 0, to |-> 0, target |-> 0]

(* A call of compile_expr on `node` is entered / has returned.             *)
Entered(node) ==
    [span EXCEPT ![node] = [from |-> Len(out), to |-> Len(out),
                            target |-> Top.target]]
Returned(sp, node, len) == [sp EXCEPT ![node].to = len]

InArm(def, pc) ==
    /\ cstate = "compiling"
    /\ stack # <<>>
    /\ Here.def = def
    /\ Top.pc = pc

(* The sum stored in the temporary register.                               *)
add_instruction_into_tmp(target, tmp) == AddInstr(tmp, target, tmp)

(* Instruction::Add { target, left: target, right: tmp_register }          *)
add_instruction(target, tmp) == AddInstr(target, target, tmp)

(* The test without its look at the fractional part.                       *)
not_i32_whole_only(f) ==
    \/ is_nan(f)
    \/ F64Gt(f, I32MaxAsF64)
    \/ F64Lt(f, I32MinAsF64)

(* The Const::Num arm's test: the constant cannot be an i32.               *)
not_i32(f) ==
    \/ is_nan(f)
    \/ F64Gt(f, I32MaxAsF64)
    \/ F64Lt(f, I32MinAsF64)
    \/ fract_nonzero(f)

(* The check left out: the next register is taken whatever the target.     *)
out_of_registers_unchecked(target) == FALSE

(* if target.0 == 255 { panic!("ran out of registers :(") }                *)
out_of_registers(target) == target = MaxRegister

(* A register left unused between the operands.                            *)
tmp_register_skips(target) == (target + 2) % U8Modulus

(* The right operand compiled into the register of the left one.           *)
tmp_register_reused(target) == target

(* Register(target.0 + 1), a u8                                            *)
tmp_register(target) == (target + 1) % U8Modulus

(* Any target taken for a variable.                                        *)
assignable_always(target_expr) == TRUE

(* The match on target_expr.def in the Assign arm.                         *)
assignable(target_expr) == target_expr.def = "Local"

(* The operands bound the other way round.                                 *)
add_operands_swapped(node) == [left |-> node.kids[2], right |-> node.kids[1]]

(* The pattern BinOp(BinOp::Num(NumOp::Add), left, right)                  *)
add_operands(node) == [left |-> node.kids[1], right |-> node.kids[2]]

(* Every sub-expression of a block given a register of its own.            *)
block_target_spread(target, i) == (target + i) % U8Modulus

(* The register the i-th sub-expression (from 0) of a block is compiled    *)
(* into: compile_expr(target, expr, out)                                   *)
block_target(target, i) == target

SupportedDefs == {"ConstInt", "ConstNum", "Local", "Assign", "BinOpAdd", "Block"}

(* unimplemented!(..) and panic!(..) unwind out of compile: nothing is     *)
(* returned, whatever `out` held.                                          *)
Panics(kind) ==
    /\ cstate' = kind
    /\ UNCHANGED <<ast, stack, out, span, instructions>>

(* pub fn compile: let mut instructions = vec![];                          *)
(*                 compile_expr(Register(0), expr, &mut instructions);     *)
compile ==
    /\ cstate = "idle"
    /\ cstate' = "compiling"
    /\ stack' = <<Frame(1, 0, "enter", 0)>>
    /\ out' = <<>>
    /\ UNCHANGED <<ast, span, instructions>>
    /\ UNCHANGED rvars

(* ExprDef::Const(Const::Int(value))                                       *)
CompileConstInt ==
    /\ InArm("ConstInt", "enter")
    /\ out' = Append(out, IntLiteral(Top.target, Here.value))
    /\ stack' = Callers
    /\ span' = Returned(Entered(Top.node), Top.node, Len(out'))
    /\ UNCHANGED <<ast, cstate, instructions>>
    /\ UNCHANGED rvars

(* ExprDef::Const(Const::Num(value))                                       *)
CompileConstNum ==
    /\ InArm("ConstNum", "enter")
    /\ IF not_i32(Here.num)
       THEN Panics("UnsupportedConstruct")
       ELSE /\ out' = Append(out, IntLiteral(Top.target, f64_as_i32(Here.num)))
            /\ stack' = Callers
            /\ span' = Returned(Entered(Top.node), Top.node, Len(out'))
            /\ UNCHANGED <<ast, cstate, instructions>>
    /\ UNCHANGED rvars

(* ExprDef::Local(name)                                                    *)
CompileLocal ==
    /\ InArm("Local", "enter")
    /\ out' = Append(out, GetName(Top.target, Here.name))
    /\ stack' = Callers
    /\ span' = Returned(Entered(Top.node), Top.node, Len(out'))
    /\ UNCHANGED <<ast, cstate, instructions>>
    /\ UNCHANGED rvars

(* ExprDef::Assign(target_expr, value_expr): the match on the target, then *)
(* compile_expr(target, value_expr, out)                                   *)
CompileAssign ==
    /\ InArm("Assign", "enter")
    /\ IF assignable(ast[Here.kids[1]])
       THEN /\ stack' = Callers \o <<[Top EXCEPT !.pc = "value_done"],
                                     Frame(Here.kids[2], Top.target, "enter", 0)>>
            /\ span' = Entered(Top.node)
            /\ UNCHANGED <<ast, cstate, out, instructions>>
       ELSE Panics("UnsupportedConstruct")
    /\ UNCHANGED rvars

(* ... then out.push(SetName { name, source: target })                     *)
CompileAssignEmit ==
    /\ InArm("Assign", "value_done")
    /\ out' = Append(out, SetName(ast[Here.kids[1]].name, Top.target))
    /\ stack' = Callers
    /\ span' = Returned(span, Top.node, Len(out'))
    /\ UNCHANGED <<ast, cstate, instructions>>
    /\ UNCHANGED rvars

(* ExprDef::BinOp(BinOp::Num(NumOp::Add), left, right):                    *)
(* compile_expr(target, left, out)                                         *)
CompileAddLeft ==
    /\ InArm("BinOpAdd", "enter")
    /\ stack' = Callers \o <<[Top EXCEPT !.pc = "left_done"],
                             Frame(add_operands(Here).left, Top.target, "enter", 0)>>
    /\ span' = Entered(Top.node)
    /\ UNCHANGED <<ast, cstate, out, instructions>>
    /\ UNCHANGED rvars

(* ... the register check, then compile_expr(tmp_register, right, out)     *)
CompileAddRight ==
    /\ InArm("BinOpAdd", "left_done")
    /\ IF out_of_registers(Top.target)
       THEN Panics("RegisterExhaustion")
       ELSE /\ stack' = Callers \o <<[Top EXCEPT !.pc = "right_done"],
                                     Frame(add_operands(Here).right, tmp_register(Top.target),
                                           "enter", 0)>>
            /\ UNCHANGED <<ast, cstate, out, span, instructions>>
    /\ UNCHANGED rvars

(* ... then out.push(Add { target, left: target, right: tmp_register })    *)
CompileAddEmit ==
    /\ InArm("BinOpAdd", "right_done")
    /\ out' = Append(out, add_instruction(Top.target, tmp_register(Top.target)))
    /\ stack' = Callers
    /\ span' = Returned(span, Top.node, Len(out'))
    /\ UNCHANGED <<ast, cstate, instructions>>
    /\ UNCHANGED rvars

(* ExprDef::Block(exprs): for expr in exprs { compile_expr(target, ..) }   *)
CompileBlock ==
    /\ cstate = "compiling"
    /\ stack # <<>>
    /\ Here.def = "Block"
    /\ LET sp == IF Top.pc = "enter" THEN Entered(Top.node) ELSE span
       IN  IF Top.i < Len(Here.kids)
           THEN /\ stack' = Callers \o <<[Top EXCEPT !.pc = "loop", !.i = @ + 1],
                                         Frame(Here.kids[Top.i + 1],
                                               block_target(Top.target, Top.i),
                                               "enter", 0)>>
                /\ span' = sp
           ELSE /\ stack' = Callers
                /\ span' = Returned(sp, Top.node, Len(out))
    /\ UNCHANGED <<ast, cstate, out, instructions>>
    /\ UNCHANGED rvars

(* _ => unimplemented!("{:?}", expr.def)                                   *)
CompileOther ==
    /\ cstate = "compiling"
    /\ stack # <<>>
    /\ Top.pc = "enter"
    /\ Here.def \notin SupportedDefs
    /\ Panics("UnsupportedConstruct")
    /\ UNCHANGED rvars

(* pub fn compile: the outermost compile_expr returned; instructions       *)
CompileReturn ==
    /\ cstate = "compiling"
    /\ stack = <<>>
    /\ cstate' = "ok"
    /\ instructions' = out
    /\ UNCHANGED <<ast, stack, out, span>>
    /\ UNCHANGED rvars

----------------------------------------------------------------------------
(* The collaborators of the VM: the environment of the realm and the       *)
(* addition of the value type.                                             *)

NoBinding == [exists |-> FALSE, value |-> Undefined, deletable |-> FALSE, scope |-> "none"]
Bound(v) == [exists |-> TRUE, value |-> v, deletable |-> TRUE, scope |-> "Function"]

has_binding(env, name) == env[name].exists

(* Fails when the name is unbound.                                         *)
get_binding_value(env, name) ==
    IF env[name].exists
    THEN [ok |-> TRUE, value |-> env[name].value]
    ELSE [ok |-> FALSE, value |-> Undefined]

set_mutable_binding(env, name, val, strict) ==
    [env EXCEPT ![name].value = val]

create_mutable_binding(env, name, deletable, scope) ==
    [env EXCEPT ![name] = [exists |-> TRUE, value |-> Undefined,
                           deletable |-> deletable, scope |-> scope]]

initialize_binding(env, name, val) ==
    [env EXCEPT ![name].value = val]

(* ValueData + ValueData: two integers add as numbers (an integer when the *)
(* sum is one); for any other operands the value type either fails or      *)
(* yields a non-integer value.                                             *)
SumFits(a, b) ==
    /\ ~(b > 0 /\ a > I32Max - b)
    /\ ~(b < 0 /\ a < I32Min - b)

ValueAdd(l, r) ==
    IF l.t = "Integer" /\ r.t = "Integer"
    THEN [ok |-> TRUE,
          value |-> IF SumFits(l.v, r.v) THEN Integer(l.v + r.v) ELSE OtherValue]
    ELSE [ok |-> ~add_fails, value |-> OtherValue]

Realms ==
    { [n \in Names |-> NoBinding],
      [n \in Names |-> IF n = "x" THEN Bound(Integer(5)) ELSE NoBinding] }

----------------------------------------------------------------------------
(* Part 2: the VM.                                                         *)

NoResult == [tag |-> "none", value |-> Undefined, err |-> ""]
Ok(v) == [tag |-> "Ok", value |-> v, err |-> ""]
Err(e) == [tag |-> "Err", value |-> Undefined, err |-> e]

(* fn get / fn set: self.registers[register.0 as usize]                    *)
get(regs, register) == regs[register + 1]
set(regs, target, value) == [regs EXCEPT ![target + 1] = value]

(* What one instruction does: the registers and environment it leaves, the *)
(* failure it raised ("" for none), the environment capabilities it used.  *)
Effect(regs, env, err, calls) ==
    [registers |-> regs, environment |-> env, err |-> err, calls |-> calls]

(* The target cleared before the binding is read.                          *)
ExecGetNameClearsFirst(ins, regs, env) ==
    LET b == get_binding_value(env, ins.name)
    IN  IF b.ok
        THEN Effect(set(regs, ins.target, b.value), env, "",
                    <<"get_binding_value">>)
        ELSE Effect(set(regs, ins.target, Undefined), env, "ReferenceError",
                    <<"get_binding_value">>)

(* Instruction::GetName: the binding is read before self.set is called.    *)
ExecGetName(ins, regs, env) ==
    LET b == get_binding_value(env, ins.name)
    IN  IF b.ok
        THEN Effect(set(regs, ins.target, b.value), env, "",
                    <<"get_binding_value">>)
        ELSE Effect(regs, env, "ReferenceError", <<"get_binding_value">>)

(* An existing binding left as it is.                                      *)
ExecSetNameCreatesOnly(ins, regs, env) ==
    LET val == get(regs, ins.source)
    IN  IF has_binding(env, ins.name)
        THEN Effect(regs, env, "", <<"has_binding">>)
        ELSE Effect(regs,
                    initialize_binding(
                        create_mutable_binding(env, ins.name, TRUE, "Function"),
                        ins.name, val),
                    "",
                    <<"has_binding", "create_mutable_binding",
                      "initialize_binding">>)

(* A binding created and initialized whether or not one exists.            *)
ExecSetNameAlwaysCreates(ins, regs, env) ==
    LET val == get(regs, ins.source)
    IN  Effect(regs,
               initialize_binding(
                   create_mutable_binding(env, ins.name, TRUE, "Function"),
                   ins.name, val),
               "",
               <<"has_binding", "create_mutable_binding", "initialize_binding">>)

(* The value moved out of the source register.                             *)
ExecSetNameMovesOut(ins, regs, env) ==
    LET val == get(regs, ins.source)
    IN  IF has_binding(env, ins.name)
        THEN Effect(set(regs, ins.source, Undefined),
                    set_mutable_binding(env, ins.name, val, TRUE), "",
                    <<"has_binding", "set_mutable_binding">>)
        ELSE Effect(set(regs, ins.source, Undefined),
                    initialize_binding(
                        create_mutable_binding(env, ins.name, TRUE, "Function"),
                        ins.name, val),
                    "",
                    <<"has_binding", "create_mutable_binding",
                      "initialize_binding">>)

(* Instruction::SetName                                                    *)
ExecSetName(ins, regs, env) ==
    LET val == get(regs, ins.source)
    IN  IF has_binding(env, ins.name)
        THEN Effect(regs, set_mutable_binding(env, ins.name, val, TRUE), "",
                    <<"has_binding", "set_mutable_binding">>)
        ELSE Effect(regs,
                    initialize_binding(
                        create_mutable_binding(env, ins.name, TRUE, "Function"),
                        ins.name, val),
                    "",
                    <<"has_binding", "create_mutable_binding",
                      "initialize_binding">>)

(* The left register added to itself.                                      *)
ExecAddLeftTwice(ins, regs, env) ==
    LET sum == ValueAdd(get(regs, ins.left), get(regs, ins.left))
    IN  IF sum.ok
        THEN Effect(set(regs, ins.target, sum.value), env, "", <<>>)
        ELSE Effect(regs, env, "TypeError", <<>>)

(* Instruction::Add                                                        *)
ExecAdd(ins, regs, env) ==
    LET sum == ValueAdd(get(regs, ins.left), get(regs, ins.right))
    IN  IF sum.ok
        THEN Effect(set(regs, ins.target, sum.value), env, "", <<>>)
        ELSE Effect(regs, env, "TypeError", <<>>)

(* Instruction::IntLiteral                                                 *)
ExecIntLiteral(ins, regs, env) ==
    Effect(set(regs, ins.target, Integer(ins.value)), env, "", <<>>)

Exec(ins, regs, env) ==
    CASE ins.op = "GetName" -> ExecGetName(ins, regs, env)
      [] ins.op = "SetName" -> ExecSetName(ins, regs, env)
      [] ins.op = "Add" -> ExecAdd(ins, regs, env)
      [] ins.op = "IntLiteral" -> ExecIntLiteral(ins, regs, env)

(* The whole of run on prog from instruction i on, as a function: the      *)
(* result and the registers and environment it leaves.                     *)
RECURSIVE RunFrom(_, _, _, _)
RunFrom(prog, i, regs, env) ==
    IF i < Len(prog)
    THEN LET e == Exec(prog[i + 1], regs, env)
         IN  IF e.err # ""
             THEN [result |-> Err(e.err), registers |-> e.registers,
                   environment |-> e.environment]
             ELSE RunFrom(prog, i + 1, e.registers, e.environment)
    ELSE [result |-> Ok(get(regs, 0)), registers |-> regs, environment |-> env]

FreshRegisters == [r \in 1..NumRegisters |-> Undefined]

(* VM::new(realm)                                                          *)
VM_new ==
    /\ vm = "none"
    /\ cstate = "ok"
    /\ vm' = "live"
    /\ registers' = FreshRegisters
    /\ environment' \in Realms
    /\ env0' = environment'
    /\ add_fails' \in BOOLEAN
    /\ UNCHANGED <<rstate, code, index, result, nrun, first, regs0, envlog>>
    /\ UNCHANGED cvars

(* Programs run on a VM after the compiled one.                            *)
LaterPrograms ==
    { <<>>, <<GetName(0, "x")>>, <<AddInstr(0, 0, 1)>> }

(* The register file cleared at the start of every run.                    *)
run_resets ==
    /\ vm = "live"
    /\ rstate \in {"idle", "returned"}
    /\ nrun < MaxRuns
    /\ code' \in (IF nrun = 0 THEN {instructions} ELSE LaterPrograms)
    /\ index' = 0
    /\ rstate' = "running"
    /\ nrun' = nrun + 1
    /\ registers' = FreshRegisters
    /\ regs0' = registers'
    /\ envlog' = <<>>
    /\ UNCHANGED <<vm, environment, add_fails, result, first, env0>>
    /\ UNCHANGED cvars

(* pub fn run: let mut index = 0;                                          *)
run ==
    /\ vm = "live"
    /\ rstate \in {"idle", "returned"}
    /\ nrun < MaxRuns
    /\ code' \in (IF nrun = 0 THEN {instructions} ELSE LaterPrograms)
    /\ index' = 0
    /\ rstate' = "running"
    /\ nrun' = nrun + 1
    /\ regs0' = registers
    /\ envlog' = <<>>
    /\ UNCHANGED <<vm, registers, environment, add_fails, result, first, env0>>
    /\ UNCHANGED cvars

Fetching(op) ==
    /\ rstate = "running"
    /\ index < Len(code)
    /\ code[index + 1].op = op

Logged(calls) ==
    [k \in 1..Len(calls) |->
        [index |-> index, call |-> calls[k], name |-> code[index + 1].name]]

(* A failure noted, and the loop going on with the next instruction.       *)
TurnGoesOn(e) ==
    /\ registers' = e.registers
    /\ environment' = e.environment
    /\ envlog' = envlog \o Logged(e.calls)
    /\ index' = index + 1
    /\ IF e.err = ""
       THEN UNCHANGED <<result, first>>
       ELSE /\ result' = Err(e.err)
            /\ first' = IF nrun = 1 THEN Err(e.err) ELSE first
    /\ UNCHANGED <<vm, add_fails, code, nrun, env0, regs0, rstate>>
    /\ UNCHANGED cvars

(* One turn of the while loop: the effect of the instruction, then         *)
(* index += 1; a failure leaves the loop and the function at once.         *)
Turn(e) ==
    /\ registers' = e.registers
    /\ environment' = e.environment
    /\ envlog' = envlog \o Logged(e.calls)
    /\ IF e.err = ""
       THEN /\ index' = index + 1
            /\ UNCHANGED <<rstate, result, first>>
       ELSE /\ index' = index
            /\ rstate' = "failed"
            /\ result' = Err(e.err)
            /\ first' = IF nrun = 1 THEN Err(e.err) ELSE first
    /\ UNCHANGED <<vm, add_fails, code, nrun, env0, regs0>>
    /\ UNCHANGED cvars

StepGetName ==
    /\ Fetching("GetName")
    /\ Turn(ExecGetName(code[index + 1], registers, environment))

StepSetName ==
    /\ Fetching("SetName")
    /\ Turn(ExecSetName(code[index + 1], registers, environment))

StepAdd ==
    /\ Fetching("Add")
    /\ Turn(ExecAdd(code[index + 1], registers, environment))

StepIntLiteral ==
    /\ Fetching("IntLiteral")
    /\ Turn(ExecIntLiteral(code[index + 1], registers, environment))

(* The result taken from register 1.                                       *)
RunReturnRegisterOne ==
    /\ rstate = "running"
    /\ index >= Len(code)
    /\ rstate' = "returned"
    /\ result' = Ok(get(registers, 1))
    /\ first' = IF nrun = 1 THEN result' ELSE first
    /\ UNCHANGED <<vm, registers, environment, add_fails, code, index, nrun,
                   env0, regs0, envlog>>
    /\ UNCHANGED cvars

(* Ok(Value::new(self.get(Register(0))))                                   *)
RunReturn ==
    /\ rstate = "running"
    /\ index >= Len(code)
    /\ rstate' = "returned"
    /\ result' = Ok(get(registers, 0))
    /\ first' = IF nrun = 1 THEN result' ELSE first
    /\ UNCHANGED <<vm, registers, environment, add_fails, code, index, nrun,
                   env0, regs0, envlog>>
    /\ UNCHANGED cvars

----------------------------------------------------------------------------

Init ==
    /\ ast \in Trees
    /\ cstate = "idle"
    /\ stack = <<>>
    /\ out = <<>>
    /\ span = [n \in DOMAIN ast |-> NoSpan]
    /\ instructions = <<>>
    /\ vm = "none"
    /\ registers = <<>>
    /\ environment = [n \in Names |-> NoBinding]
    /\ add_fails = FALSE
    /\ rstate = "idle"
    /\ code = <<>>
    /\ index = 0
    /\ result = NoResult
    /\ nrun = 0
    /\ first = NoResult
    /\ env0 = [n \in Names |-> NoBinding]
    /\ regs0 = <<>>
    /\ envlog = <<>>

Next ==
    \/ compile
    \/ CompileConstInt
    \/ CompileConstNum
    \/ CompileLocal
    \/ CompileAssign
    \/ CompileAssignEmit
    \/ CompileAddLeft
    \/ CompileAddRight
    \/ CompileAddEmit
    \/ CompileBlock
    \/ CompileOther
    \/ CompileReturn
    \/ VM_new
    \/ run
    \/ StepGetName
    \/ StepSetName
    \/ StepAdd
    \/ StepIntLiteral
    \/ RunReturn

Spec == Init /\ [][Next]_vars

----------------------------------------------------------------------------
(* Vocabulary of the properties.                                           *)

Defs(t) == { t[i].def : i \in DOMAIN t }
ConstNodes(t) == { i \in DOMAIN t : t[i].def = "ConstInt" }

(* The sum of the integer constants of a tree, value by value.             *)
RECURSIVE SumOver(_, _)
SumOver(vals, t) ==
    IF vals = {} THEN 0
    ELSE LET v == CHOOSE w \in vals : TRUE
         IN  v * Cardinality({ i \in ConstNodes(t) : t[i].value = v })
                + SumOver(vals \ {v}, t)

SumOfConstants(t) == SumOver({ t[i].value : i \in ConstNodes(t) }, t)

IsArith(t) == Defs(t) \subseteq {"ConstInt", "BinOpAdd"}
Additions(t) == Cardinality({ i \in DOMAIN t : t[i].def = "BinOpAdd" })

RegistersUsed(prog) == UNION { RegistersOf(prog[i]) : i \in DOMAIN prog }

CompileFailed == cstate \in {"UnsupportedConstruct", "RegisterExhaustion"}
RunOver == rstate \in {"returned", "failed"}
FirstRunOver == nrun = 1 /\ RunOver

----------------------------------------------------------------------------
(* C1: a tree of integer constants and additions, nested no deeper than    *)
(* the registers allow, compiles, and its run on a fresh VM returns Ok of  *)
(* the integer sum of its constants (n for a constant n, 4 for 2 + 2).     *)
C1_SumOfConstants ==
    (IsArith(ast) /\ Additions(ast) <= MaxRegister) =>
        /\ ~CompileFailed
        /\ FirstRunOver => result = Ok(Integer(SumOfConstants(ast)))

C1_Witness ==
    /\ ast = Add(ConstInt(2), ConstInt(2))
    /\ FirstRunOver
    /\ result = Ok(Integer(4))

(* C2: a right-nested chain of k additions compiles with exactly the       *)
(* registers 0..k when k <= 255; with k >= 256 it fails with the register  *)
(* exhaustion and at no point has it emitted an instruction for a leaf in  *)
(* any register but the leaf's depth.                                      *)
IsRightChain ==
    ast = RightChain((Len(ast) - 1) \div 2, ConstInt(1), ConstInt(1))
ChainK == (Len(ast) - 1) \div 2

C2_ChainRegisters ==
    IsRightChain =>
        /\ \A p \in DOMAIN out :
              /\ RegistersOf(out[p]) \subseteq 0..MaxRegister
              /\ p <= ChainK + 1 => out[p] = IntLiteral(p - 1, 1)
        /\ cstate = "ok" =>
              /\ ChainK <= MaxRegister
              /\ RegistersUsed(instructions) = 0..ChainK
        /\ cstate = "RegisterExhaustion" => ChainK > MaxRegister
        /\ cstate # "UnsupportedConstruct"

C2_Witness ==
    /\ IsRightChain
    /\ ChainK = MaxRegister + 1
    /\ cstate = "RegisterExhaustion"
    /\ Len(out) = NumRegisters

(* C3: a GetName of an unbound name makes the run fail, with an error and  *)
(* no value, and leaves every register as it was.                          *)
GetNameUnbound ==
    /\ Fetching("GetName")
    /\ ~has_binding(environment, code[index + 1].name)

C3_UnboundGetNameFails ==
    [][GetNameUnbound =>
          /\ rstate' = "failed"
          /\ result' = Err("ReferenceError")
          /\ registers' = registers]_vars

C3_Witness ==
    /\ rstate = "failed"
    /\ code[index + 1].op = "GetName"
    /\ code[index + 1].target = 0
    /\ get(registers, 0) = Integer(1)

(* C4: the run of a non-empty block returns the value its last             *)
(* sub-expression has when run alone, on fresh registers, in the           *)
(* environment the earlier sub-expressions left; and the environment after *)
(* the block is the one after the last sub-expression.                     *)
IsBlock == ast[1].def = "Block" /\ ast[1].kids # <<>>
LastKid == ast[1].kids[Len(ast[1].kids)]
(* The instructions emitted before / for the last sub-expression.          *)
EarlierCode == SubSeq(instructions, 1, span[LastKid].from)
LastCode == SubSeq(instructions, span[LastKid].from + 1, span[LastKid].to)
Earlier == RunFrom(EarlierCode, 0, FreshRegisters, env0)
LastAlone == RunFrom(LastCode, 0, FreshRegisters, Earlier.environment)
(* The last sub-expression holds an empty block somewhere.                 *)
LastHasEmptyBlock ==
    \E i \in LastKid..Len(ast) : ast[i].def = "Block" /\ ast[i].kids = <<>>

BlockRan ==
    /\ IsBlock
    /\ cstate = "ok"
    /\ FirstRunOver
    /\ Earlier.result.tag = "Ok"

AssignThenRef(v) == Block(<<Assign(Local("x"), ConstInt(v)), Local("x")>>)
ReadsX == code = <<GetName(0, "x")>>

C5_AssignThenRead ==
    \A v \in {1, 3} :
        ast = AssignThenRef(v) =>
            /\ FirstRunOver => result = Ok(Integer(v))
            /\ (nrun = 2 /\ RunOver /\ ReadsX) =>
                  /\ first = Ok(Integer(v))
                  /\ result = Ok(Integer(v))

C5_Witness ==
    /\ ast = AssignThenRef(3)
    /\ nrun = 2 /\ RunOver /\ ReadsX
    /\ env0["x"] = Bound(Integer(5))
    /\ result = Ok(Integer(3))

(* C6: the block [x = 3, x + x] compiles to IntLiteral, SetName, GetName   *)
(* into register 0, GetName into register 1, Add, and runs to 6 in a fresh *)
(* environment.                                                            *)
SixBlock == Block(<<Assign(Local("x"), ConstInt(3)), Add(Local("x"), Local("x"))>>)
SixCode ==
    << IntLiteral(0, 3), SetName("x", 0), GetName(0, "x"), GetName(1, "x"),
       AddInstr(0, 0, 1) >>
FreshEnvironment == \A n \in Names : ~env0[n].exists

(* C6 as claimed: a program of 3 instructions.                             *)
C6_ThreeInstructions ==
    (ast = SixBlock /\ cstate = "ok") =>
        /\ Len(instructions) = 3
        /\ (FirstRunOver /\ FreshEnvironment) => result = Ok(Integer(6))

(* C6 as amended: a program of 5 instructions.                             *)
C6_FiveInstructions ==
    (ast = SixBlock /\ cstate = "ok") =>
        /\ Len(instructions) = 5
        /\ instructions = SixCode
        /\ (FirstRunOver /\ FreshEnvironment) => result = Ok(Integer(6))

C6_Witness ==
    /\ ast = SixBlock
    /\ FirstRunOver /\ FreshEnvironment
    /\ instructions = SixCode
    /\ result = Ok(Integer(6))

(* C7: for every addition the instructions of the left operand come first, *)
(* those of the right operand next, the Add last; so in a run no           *)
(* environment call of the right operand comes before one of the left, and *)
(* (x = 1) + x is 2.                                                       *)
AddNodes == { n \in DOMAIN ast : ast[n].def = "BinOpAdd" }
Within(p, sp) == sp.from < p /\ p <= sp.to

C7_LeftBeforeRight ==
    /\ cstate = "ok" =>
          \A n \in AddNodes :
              LET l == span[ast[n].kids[1]]
                  r == span[ast[n].kids[2]]
              IN  /\ l.from = span[n].from
                  /\ l.to = r.from
                  /\ r.to + 1 = span[n].to
                  /\ instructions[span[n].to].op = "Add"
                  /\ \A i, j \in DOMAIN envlog :
                        ( /\ Within(envlog[i].index + 1, l)
                          /\ Within(envlog[j].index + 1, r) ) => i < j
    /\ (ast = Add(Assign(Local("x"), ConstInt(1)), Local("x")) /\ FirstRunOver)
          => result = Ok(Integer(2))

C7_Witness ==
    /\ ast = Add(Assign(Local("x"), ConstInt(1)), Local("x"))
    /\ FirstRunOver
    /\ env0["x"] = Bound(Integer(5))
    /\ Len(envlog) = 3
    /\ result = Ok(Integer(2))

(* C8: a Const::Num compiles exactly when it is a whole number of the i32  *)
(* range, to one IntLiteral of that number; otherwise compile fails as     *)
(* unsupported.  2.0 + 3.0 runs to 5; 1.5 + 1 does not compile.            *)
IsNum == Len(ast) = 1 /\ ast[1].def = "ConstNum"
WholeI32(f) ==
    /\ ~f.nan
    /\ ~f.half
    /\ f.hi \in I32MinHi..I32MaxHi
    /\ f.lo \in 0..(Two16 - 1)

C8_NumConstants ==
    /\ IsNum =>
          /\ cstate = "ok" =>
                /\ WholeI32(ast[1].num)
                /\ instructions =
                      <<IntLiteral(0, ast[1].num.hi * Two16 + ast[1].num.lo)>>
          /\ cstate = "UnsupportedConstruct" => ~WholeI32(ast[1].num)
          /\ cstate # "RegisterExhaustion"
    /\ ast = Add(ConstNum(F64(0, 2, FALSE)), ConstNum(F64(0, 3, FALSE))) =>
          /\ ~CompileFailed
          /\ FirstRunOver => result = Ok(Integer(5))
    /\ ast = Add(ConstNum(F64(0, 1, TRUE)), ConstInt(1)) =>
          cstate \in {"idle", "compiling", "UnsupportedConstruct"}

C8_Witness ==
    /\ IsNum
    /\ ast[1].num = F64(I32MaxHi, I32MaxLo, FALSE)
    /\ instructions = <<IntLiteral(0, I32Max)>>
    /\ cstate = "ok"

(* C9: an instruction that fails ends the run there: the run has failed    *)
(* with that error, the registers and the environment are as the earlier   *)
(* instructions left them, and nothing runs afterwards.                    *)
Failing ==
    /\ rstate = "running"
    /\ index < Len(code)
    /\ Exec(code[index + 1], registers, environment).err # ""

C9_FailureHalts ==
    [][ /\ Failing =>
              /\ rstate' = "failed"
              /\ result' = Err(Exec(code[index + 1], registers, environment).err)
              /\ index' = index
              /\ registers' = registers
              /\ environment' = environment
        /\ rstate = "failed" => UNCHANGED vars ]_vars

C9_Witness ==
    /\ rstate = "failed"
    /\ result = Err("TypeError")
    /\ index > 0
    /\ index + 1 < Len(code)
    /\ registers # FreshRegisters

(* C10: a tree holding an assignment to something other than a variable,   *)
(* or a node compile_expr has no arm for, does not compile: compile        *)
(* returns nothing, whatever had been emitted.                             *)
Unsupported(n) ==
    \/ ast[n].def \notin SupportedDefs
    \/ ast[n].def = "Assign" /\ ast[ast[n].kids[1]].def # "Local"
HasUnsupported == \E n \in DOMAIN ast : Unsupported(n)

(* C10 as claimed: the failure is always the unsupported construct.        *)
C10_AlwaysUnsupportedConstruct ==
    HasUnsupported =>
        /\ cstate \in {"idle", "compiling", "UnsupportedConstruct"}
        /\ instructions = <<>>

(* C10 as amended: or the register exhaustion, when an addition whose      *)
(* target is register 255 is compiled before the unsupported node is       *)
(* reached.                                                                *)
C10_UnsupportedNeverCompiles ==
    HasUnsupported =>
        /\ cstate \in {"idle", "compiling", "UnsupportedConstruct",
                       "RegisterExhaustion"}
        /\ cstate = "RegisterExhaustion" =>
              /\ Here.def = "BinOpAdd"
              /\ Top.target = MaxRegister
        /\ instructions = <<>>
        /\ vm = "none"

C10_Witness ==
    /\ HasUnsupported
    /\ cstate = "UnsupportedConstruct"
    /\ Len(out) = 2
    /\ instructions = <<>>

(* C11: a run starts at index 0, executes the instruction at index and     *)
(* moves index on by one, and when index reaches the length of the program *)
(* returns Ok of register 0.                                               *)
Executes ==
    LET e == Exec(code[index + 1], registers, environment)
    IN  /\ index' = index + 1
        /\ rstate' = "running"
        /\ registers' = e.registers
        /\ environment' = e.environment

RunDiscipline ==
    /\ (rstate # "running" /\ rstate' = "running") => index' = 0
    /\ (rstate = "running" /\ index >= Len(code)) =>
          /\ index = Len(code)
          /\ rstate' = "returned"
          /\ result' = Ok(get(registers, 0))
          /\ registers' = registers
    /\ code' = code \/ rstate # "running"

(* C11 as claimed: every instruction of every program is executed.         *)
C11_EveryInstructionRuns ==
    [][ /\ RunDiscipline
        /\ (rstate = "running" /\ index < Len(code)) => Executes ]_vars

(* C11 as amended: unless an instruction fails, which ends the run at that *)
(* index with the failure.                                                 *)
C11_InOrderOnceEach ==
    [][ /\ RunDiscipline
        /\ (rstate = "running" /\ index < Len(code) /\ ~Failing) => Executes
        /\ Failing => (rstate' = "failed" /\ index' = index) ]_vars

C11_Witness ==
    /\ rstate = "returned"
    /\ nrun = 1
    /\ Len(code) = 5
    /\ index = 5
    /\ result = Ok(get(registers, 0))

(* C12: GetName, IntLiteral and Add change no register but their target    *)
(* and no binding; SetName changes no register and no binding but the one  *)
(* it names.                                                               *)
Fetched == code[index + 1]
OtherRegistersKept(target) ==
    \A r \in 0..MaxRegister : r # target => get(registers', r) = get(registers, r)

C12_FrameOfInstructions ==
    [][ /\ \A op \in {"GetName", "IntLiteral", "Add"} :
              Fetching(op) =>
                  /\ OtherRegistersKept(Fetched.target)
                  /\ environment' = environment
        /\ Fetching("SetName") =>
              /\ registers' = registers
              /\ Len(registers') = NumRegisters
              /\ \A n \in Names \ {Fetched.name} :
                    environment'[n] = environment[n] ]_vars

C12_Witness ==
    /\ rstate = "running"
    /\ index = 2
    /\ code[index].op = "SetName"
    /\ code[index].name = "y"
    /\ environment["y"] # env0["y"]
    /\ environment["x"] = Bound(Integer(5))
    /\ get(registers, 0) = Integer(5)

(* C13: SetName never fails.  It asks has_binding; a binding that exists   *)
(* is updated with set_mutable_binding and keeps its kind, a missing one   *)
(* is created mutable and function-scoped and then initialized; either     *)
(* way the binding then holds the value of the source register.            *)
NewCalls == SubSeq(envlog', Len(envlog) + 1, Len(envlog'))
CallNames(log) == [k \in DOMAIN log |-> log[k].call]

C13_SetNameWrites ==
    [][ Fetching("SetName") =>
          LET b == environment[Fetched.name]
              b1 == environment'[Fetched.name]
          IN  /\ rstate' = "running"
              /\ index' = index + 1
              /\ b1.exists
              /\ b1.value = get(registers, Fetched.source)
              /\ IF b.exists
                 THEN /\ CallNames(NewCalls) =
                            <<"has_binding", "set_mutable_binding">>
                      /\ b1.scope = b.scope /\ b1.deletable = b.deletable
                 ELSE /\ CallNames(NewCalls) =
                            <<"has_binding", "create_mutable_binding",
                              "initialize_binding">>
                      /\ b1.scope = "Function" ]_vars

C13_Witness ==
    /\ rstate = "running"
    /\ index = 2
    /\ code[index] = SetName("x", 0)
    /\ env0["x"] = Bound(Integer(5))
    /\ CallNames(envlog) = <<"has_binding", "set_mutable_binding">>
    /\ environment["x"].value = Integer(3)

(* C14: a VM has 256 registers, all undefined when it is made, and run     *)
(* starts on the registers as they are: the empty program returns          *)
(* undefined on a new VM and the earlier run's register 0 on a used one.   *)
C14_RegistersPersist ==
    /\ [](vm = "live" =>
            /\ Len(registers) = NumRegisters
            /\ nrun = 0 => registers = FreshRegisters
            /\ (code = <<>> /\ rstate = "returned") =>
                  result = IF nrun = 1 THEN Ok(Undefined) ELSE Ok(get(regs0, 0)))
    /\ [][ (rstate # "running" /\ rstate' = "running") =>
              /\ registers' = registers
              /\ regs0' = registers
              /\ (nrun = 1 /\ rstate = "returned") => result = Ok(get(registers, 0))
         ]_vars

C14_Witness ==
    /\ nrun = 2
    /\ rstate = "returned"
    /\ code = <<>>
    /\ first = Ok(Integer(4))
    /\ result = Ok(Integer(4))

(* C15: an instruction emitted during a call compile_expr(t, e, out) names *)
(* no register below t; once the instructions of e have run, register t    *)
(* holds the value of e in the environment current when they began; and   *)
(* while the right operand of an addition runs, register t keeps the left  *)
(* operand's value.                                                        *)
(* The node each node is a child of (0 for the root), as a sequence.       *)
ParentOf(t) ==
    <<>> \o [j \in 1..Len(t) |->
               IF j = 1 THEN 0
               ELSE CHOOSE a \in 1..(j - 1) :
                        \E k \in DOMAIN t[a].kids : t[a].kids[k] = j]

RECURSIVE IsUnder(_, _, _)
IsUnder(t, m, n) ==
    \/ m = n
    \/ m > n /\ IsUnder(t, ParentOf(t)[m], n)

HoldsEmptyBlock(n) ==
    \E m \in n..Len(ast) :
        /\ ast[m].def = "Block"
        /\ ast[m].kids = <<>>
        /\ IsUnder(ast, m, n)

Emitted == out'[Len(out')]
EmittedAbove ==
    Len(out') > Len(out) =>
        \A k \in DOMAIN stack :
            RegistersOf(Emitted) \subseteq stack[k].target..MaxRegister

RightKeepsLeft ==
    (nrun = 1 /\ rstate = "running") =>
        \A a \in AddNodes :
            LET right == span[add_operands(ast[a]).right]
            IN  (right.from <= index /\ index < right.to) =>
                    get(registers', span[a].target) = get(registers, span[a].target)

(* The nodes whose instructions have just run, in the first run.           *)
JustRan ==
    IF cstate = "ok" /\ nrun = 1 /\ rstate # "idle"
          /\ Len(instructions) <= MaxProgram
    THEN { n \in DOMAIN ast : (n = 1 \/ span[n] # NoSpan) /\ span[n].to = index }
    ELSE {}

Before(n) ==
    RunFrom(SubSeq(instructions, 1, span[n].from), 0, FreshRegisters, env0)

(* The value of an expression and the environment its evaluation leaves:   *)
(* a constant is its number, a reference the binding's value, an           *)
(* assignment the value assigned, an addition the sum of the left and then *)
(* the right operand, a block its last sub-expression (undefined if it has *)
(* none).                                                                  *)
Valued(v, env) == [value |-> v, environment |-> env, err |-> ""]
Fails(e, env) == [value |-> Undefined, environment |-> env, err |-> e]

RECURSIVE Eval(_, _, _)
RECURSIVE EvalEach(_, _, _, _)
EvalEach(t, kids, i, sofar) ==
    IF i > Len(kids) \/ sofar.err # ""
    THEN sofar
    ELSE EvalEach(t, kids, i + 1, Eval(t, kids[i], sofar.environment))

Eval(t, n, env) ==
    CASE t[n].def = "ConstInt" -> Valued(Integer(t[n].value), env)
      [] t[n].def = "ConstNum" -> Valued(Integer(f64_as_i32(t[n].num)), env)
      [] t[n].def = "Local" ->
            IF env[t[n].name].exists
            THEN Valued(env[t[n].name].value, env)
            ELSE Fails("ReferenceError", env)
      [] t[n].def = "Assign" ->
            LET v == Eval(t, t[n].kids[2], env)
                name == t[t[n].kids[1]].name
            IN  IF v.err # "" THEN v
                ELSE Valued(v.value,
                            IF has_binding(v.environment, name)
                            THEN set_mutable_binding(v.environment, name,
                                                     v.value, TRUE)
                            ELSE initialize_binding(
                                     create_mutable_binding(v.environment, name,
                                                            TRUE, "Function"),
                                     name, v.value))
      [] t[n].def = "BinOpAdd" ->
            LET l == Eval(t, t[n].kids[1], env)
                r == Eval(t, t[n].kids[2], l.environment)
                sum == ValueAdd(l.value, r.value)
            IN  IF l.err # "" THEN l
                ELSE IF r.err # "" THEN r
                ELSE IF sum.ok THEN Valued(sum.value, r.environment)
                ELSE Fails("TypeError", r.environment)
      [] t[n].def = "Block" ->
            EvalEach(t, t[n].kids, 1, Valued(Undefined, env))
      [] OTHER -> Fails("UnsupportedConstruct", env)

HoldsValue(n) ==
    LET e == Eval(ast, n, Before(n).environment)
    IN  /\ e.err = ""
        /\ get(registers, span[n].target) = e.value

(* C15 as claimed: every expression.                                        *)
C15_AnyExpression ==
    /\ [][EmittedAbove /\ RightKeepsLeft]_vars
    /\ [](\A n \in JustRan : HoldsValue(n))

(* C15 as amended: the value for an expression that holds no empty block.  *)
C15_RegisterDiscipline ==
    /\ [][EmittedAbove /\ RightKeepsLeft]_vars
    /\ [](\A n \in JustRan : ~HoldsEmptyBlock(n) => HoldsValue(n))

C15_Witness ==
    /\ ast = Add(Local("x"), Add(ConstInt(1), ConstInt(3)))
    /\ nrun = 1
    /\ rstate = "running"
    /\ index = 4
    /\ span[3].target = 1
    /\ get(registers, 0) = Integer(5)
    /\ get(registers, 1) = Integer(4)

(* C16: the highest register a compiled tree uses is the largest number of *)
(* right-operand edges of additions on a path from the root, whatever the  *)
(* number of additions; a left-nested chain of additions of any length     *)
(* compiles, with registers 0 and 1 only.                                  *)
RightEdge(t, a, n) ==
    IF t[a].def = "BinOpAdd" /\ add_operands(t[a]).right = n THEN 1 ELSE 0

(* The sums of val along the ptr links up to the root, by doubling.        *)
RECURSIVE Climb(_, _)
Climb(ptr, val) ==
    IF \A n \in DOMAIN ptr : ptr[n] = 0
    THEN val
    ELSE Climb(<<>> \o [n \in DOMAIN ptr |->
                           IF ptr[n] = 0 THEN 0 ELSE ptr[ptr[n]]],
               <<>> \o [n \in DOMAIN ptr |->
                           IF ptr[n] = 0 THEN val[n] ELSE val[n] + val[ptr[n]]])

RightEdges(t) ==
    LET parent == ParentOf(t)
    IN  Climb(parent,
              <<>> \o [n \in DOMAIN t |->
                          IF n = 1 THEN 0 ELSE RightEdge(t, parent[n], n)])

Highest(S) == CHOOSE m \in S : \A r \in S : r <= m
MaxRightEdges(t) ==
    LET edges == RightEdges(t)
    IN  Highest({ edges[n] : n \in DOMAIN t })

IsLeftChain ==
    /\ Len(ast) >= 3
    /\ ast = LeftChain((Len(ast) - 1) \div 2, ConstInt(1), ConstInt(1))

JustCompiled == cstate = "ok" /\ vm = "none"

C16_RegistersByRightDepth ==
    /\ (JustCompiled /\ instructions # <<>>) =>
          Highest(RegistersUsed(instructions)) = MaxRightEdges(ast)
    /\ IsLeftChain =>
          /\ ~CompileFailed
          /\ RegistersUsed(out) \subseteq {0, 1}
          /\ cstate = "ok" => RegistersUsed(instructions) = {0, 1}

C16_Witness ==
    /\ IsLeftChain
    /\ JustCompiled
    /\ Additions(ast) = MaxChain
    /\ Additions(ast) > MaxRegister
    /\ MaxRightEdges(ast) = 1
    /\ Highest(RegistersUsed(instructions)) = 1

====
